---- MODULE Spec2Model ----
(***************************************************************************)
(* A model of the TypeDB HTTP client of src/src/client.ts:                 *)
(*   - the token cache (Cache.makeWith, capacity 1, lookup = authenticate, *)
(*     timeToLive computed from the exit of the lookup);                   *)
(*   - the scoped resources openTransactionScoped / createDatabaseScoped   *)
(*     (Effect.acquireRelease around makeMethod calls).                    *)
(* Time is a discrete clock whose readings are one second apart, the unit *)
(* in which the code computes the remaining life of a token.  Several     *)
(* steps may happen at one reading of the clock.                          *)
(***************************************************************************)
EXTENDS Integers, Sequences, FiniteSets, TLC

\* ------------------------------------------------------------------ bounds
NCallers == 2        \* concurrent method invocations asking for a token
MaxTime == 3         \* last reading of the clock
MaxSignIns == 2      \* sign-in requests the cache may send in one behaviour
MaxLifetime == 3     \* longest life (exp - issue time) of an issued token

NScoped == 1         \* scoped uses (fibers running a scoped operation)
MaxWorkCalls == 1    \* calls the enclosed work makes on its transaction

\* -------------------------------------------------------- program constants
Skew == 2            \* client.ts:118  decoded.exp - now - 2

Callers == 1..NCallers
SignInIds == 1..MaxSignIns
Uses == 1..NScoped
TxTypes == {"read", "write", "schema"}          \* TransactionType
TxIds == {"tx1", "tx2"}                         \* transaction ids the server hands out
DbNames == {"temp_a", "temp_b"}                 \* names of scoped databases
TxDbNames == {"family"}                         \* checker.ts:13, database of a scoped transaction

VARIABLES
  clock,        \* Date.now() / the Clock service, in seconds
  cache,        \* the single entry of tokenCache for the key `creds`
  deferreds,    \* Deferred of each lookup: its exit, or NoExit while pending
  signInsSent,  \* number of POST /v1/signin requests sent by the cache lookup
  inflight,     \* sign-in requests sent and not yet answered
  pc,           \* each caller's position in tokenCache.get(creds)
  awaiting,     \* the lookup (sign-in id) a caller runs or awaits
  result,       \* the exit tokenCache.get gave the caller
  src,          \* how the caller was answered: "hit", "lookup" or "shared"
  spc,          \* each scoped use's position
  rkind,        \* "tx" (openTransactionScoped) or "db" (createDatabaseScoped)
  txType,       \* the txType argument of openTransactionScoped
  dbName,       \* the dbName argument
  handle,       \* what acquire returned: tx.transactionId, or dbName
  workExit,     \* the Exit of the enclosed work, given to the release action
  calls,        \* the method calls the scoped use issued, in order
  termOut,      \* the outcome of the terminal call itself
  termReq,      \* what became of the terminal call's request
  final,        \* the Exit of the whole scoped use
  cancelAt      \* where the scoped use was when its fiber was interrupted

cacheVars == <<clock, cache, deferreds, signInsSent, inflight, pc, awaiting, result, src>>
\* One invocation of an API method, from its inputs to its exit.
VARIABLES
  mpc,          \* "ready" before the invocation, "returned" after it
  mmethod,      \* the method invoked: name, response schema, whether it has a body
  menv,         \* what the environment decides for the invocation
  mout          \* the exit of the invocation

methodVars == <<mpc, mmethod, menv, mout>>

\* Method invocations going through the token cache, one at a time per caller.
VARIABLES
  stage,        \* per caller: "none", "encoded", "sent" or "finished"
  meth,         \* per caller: the method being invoked
  req,          \* per caller: the request the invocation put on the wire
  iout,         \* per caller: the exit of the invocation
  fetches,      \* per caller: token fetches made by the invocation
  floor,        \* per caller: the newest sign-in the cache knew when the fetch began
  first,        \* the token the first request of the client carried (0: none yet)
  signin,       \* the sign-in request sent last
  answer,       \* how the last sign-in request was answered
  gotAt,        \* per caller: the clock reading at which its token fetch returned
  reqBody       \* per caller: the request body: "none", "ok" or "fail" (not encodable)

invokeVars == <<stage, meth, req, iout, fetches, floor, first, signin, answer, gotAt, reqBody>>
scopedVars == <<spc, rkind, txType, dbName, handle, workExit, calls, termOut, termReq, final, cancelAt>>
vars == <<cacheVars, scopedVars, methodVars, invokeVars>>

\* ------------------------------------------------------------------ values
NoExit == [tag |-> "None", id |-> 0, exp |-> 0]
\* Exit of authenticate: Success(TokenResponse) | Failure(Fail e) | Failure(Die d).
\* `id` identifies the token (the sign-in that issued it), `exp` its exp claim.
ExitOf(tag, id, exp) == [tag |-> tag, id |-> id, exp |-> IF tag = "Success" THEN exp ELSE 0]

\* The states of a cache entry (capacity 1: the cache holds one entry, `key` is
\* the key object it is stored under).
Absent ==
  [tag |-> "Absent", key |-> -1, id |-> 0, exit |-> NoExit, loaded |-> 0, expiresAt |-> 0]
Pending(key, id) ==
  [tag |-> "Pending", key |-> key, id |-> id, exit |-> NoExit, loaded |-> 0, expiresAt |-> 0]
Complete(key, id, exit, now, expiresAt) ==
  [tag |-> "Complete", key |-> key, id |-> id, exit |-> exit, loaded |-> now,
   expiresAt |-> expiresAt]

\* The key caller c passes to tokenCache.get: `creds` is built once
\* (client.ts:126), so every call passes the same object, object 0.
creds_inline(c) == c
creds(c) == 0

\* The entry the cache holds for a key.
entryFor(key) == IF cache.key = key THEN cache ELSE Absent

\* Duration.seconds(n): a Duration is never negative, n <= 0 gives Duration.zero.
DurationSeconds(n) == IF n <= 0 THEN 0 ELSE n

\* timeToLive of tokenCache (client.ts:111-121).
timeToLive_noSkew(exit, now) ==
  IF exit.tag = "Success" THEN DurationSeconds(exit.exp - now) ELSE 0
timeToLive(exit, now) ==
  IF exit.tag = "Success" THEN DurationSeconds(exit.exp - now - Skew) ELSE 0

\* Cache.hasExpired: an entry is expired once the clock reads later than the
\* instant it was stored plus its time to live.
hasExpired(now, expiresAt) == now > expiresAt

\* Cache.get on the entry found for the key: answer from a complete live entry,
\* await the Deferred of a pending lookup, otherwise run the lookup.
resolve_noSingleFlight(entry, now) ==
  IF entry.tag = "Complete" /\ ~hasExpired(now, entry.expiresAt) THEN "hit" ELSE "miss"
resolve(entry, now) ==
  IF entry.tag = "Complete" /\ ~hasExpired(now, entry.expiresAt) THEN "hit"
  ELSE IF entry.tag = "Pending" THEN "await"
  ELSE "miss"

\* ------------------------------------------------------------- token cache
InitCache ==
  /\ clock = 0
  /\ cache = Absent
  /\ deferreds = [i \in SignInIds |-> NoExit]
  /\ signInsSent = 0
  /\ inflight = {}
  /\ pc = [c \in Callers |-> "idle"]
  /\ awaiting = [c \in Callers |-> 0]
  /\ result = [c \in Callers |-> NoExit]
  /\ src = [c \in Callers |-> "none"]

\* tokenCache.get(creds) by caller c: answered from a live entry, joined to
\* the pending lookup, or started as a lookup that sends a sign-in request.
tokenCacheGet(c) ==
  /\ pc[c] = "idle"
  /\ LET entry == entryFor(creds(c))
         how == resolve(entry, clock)
     IN
     \/ /\ how = "hit"
        /\ pc' = [pc EXCEPT ![c] = "done"]
        /\ result' = [result EXCEPT ![c] = entry.exit]
        /\ src' = [src EXCEPT ![c] = "hit"]
        /\ awaiting' = [awaiting EXCEPT ![c] = entry.id]
        /\ UNCHANGED <<cache, signInsSent, inflight>>
     \/ /\ how = "await"
        /\ pc' = [pc EXCEPT ![c] = "await"]
        /\ awaiting' = [awaiting EXCEPT ![c] = entry.id]
        /\ src' = [src EXCEPT ![c] = "shared"]
        /\ UNCHANGED <<cache, signInsSent, inflight, result>>
     \/ /\ how = "miss"
        /\ signInsSent < MaxSignIns
        /\ LET id == signInsSent + 1 IN
           /\ cache' = Pending(creds(c), id)
           /\ signInsSent' = id
           /\ inflight' = inflight \cup {id}
           /\ awaiting' = [awaiting EXCEPT ![c] = id]
        /\ pc' = [pc EXCEPT ![c] = "lookup"]
        /\ src' = [src EXCEPT ![c] = "lookup"]
        /\ UNCHANGED result
  /\ UNCHANGED <<clock, deferreds>>

\* http.execute -> mapRequestEffect -> tokenCache.get(creds)  (client.ts:128-140)
Get(c) ==
  /\ tokenCacheGet(c)
  /\ UNCHANGED <<scopedVars, methodVars, invokeVars>>

\* The sign-in request of caller c's lookup is answered: authenticate exits
\* (client.ts:88-106), the cache stores the exit with its time to live and
\* completes the Deferred of the lookup.  A Success carries a token whose
\* claims decode (a JWT with a numeric exp, here clock + life); Fail is a
\* transport or response error, Die the ParseError of client.ts:105.
authenticateExits(c, tag, life) ==
  /\ pc[c] = "lookup"
  /\ LET id == awaiting[c]
         exit == ExitOf(tag, id, clock + life)
     IN
     /\ id \in inflight
     /\ inflight' = inflight \ {id}
     /\ cache' = Complete(creds(c), id, exit, clock, clock + timeToLive(exit, clock))
     /\ deferreds' = [deferreds EXCEPT ![id] = exit]
     /\ result' = [result EXCEPT ![c] = exit]
  /\ pc' = [pc EXCEPT ![c] = "done"]
  /\ UNCHANGED <<clock, signInsSent, awaiting, src>>

SignInReply(c, tag, life) ==
  /\ authenticateExits(c, tag, life)
  /\ UNCHANGED <<scopedVars, methodVars, invokeVars>>

\* A caller awaiting the Deferred of a pending lookup is resumed with its exit.
Resume(c) ==
  /\ pc[c] = "await"
  /\ deferreds[awaiting[c]] # NoExit
  /\ result' = [result EXCEPT ![c] = deferreds[awaiting[c]]]
  /\ pc' = [pc EXCEPT ![c] = "done"]
  /\ UNCHANGED <<clock, cache, deferreds, signInsSent, inflight, awaiting, src>>
  /\ UNCHANGED <<scopedVars, methodVars, invokeVars>>

\* The caller's invocation is over; the same fiber starts another one.
Again(c) ==
  /\ pc[c] = "done"
  /\ pc' = [pc EXCEPT ![c] = "idle"]
  /\ result' = [result EXCEPT ![c] = NoExit]
  /\ src' = [src EXCEPT ![c] = "none"]
  /\ awaiting' = [awaiting EXCEPT ![c] = 0]
  /\ UNCHANGED <<clock, cache, deferreds, signInsSent, inflight>>
  /\ UNCHANGED <<scopedVars, methodVars, invokeVars>>

Tick ==
  /\ clock < MaxTime
  /\ clock' = clock + 1
  /\ UNCHANGED <<cache, deferreds, signInsSent, inflight, pc, awaiting, result, src>>
  /\ UNCHANGED <<scopedVars, methodVars, invokeVars>>

\* The fiber of caller c is interrupted while it runs the lookup (the lookup
\* runs on the fiber of the tokenCache.get that missed, client.ts:131-132).
\* The sign-in request is aborted; the onInterrupt handler of Cache's lookup
\* interrupts the Deferred of the lookup and removes the pending entry.
Cancel(c) ==
  /\ pc[c] = "lookup"
  /\ awaiting[c] \in inflight
  /\ LET id == awaiting[c]
         exit == ExitOf("Interrupt", id, 0)
     IN /\ inflight' = inflight \ {id}
        /\ deferreds' = [deferreds EXCEPT ![id] = exit]
        /\ cache' = Absent
        /\ result' = [result EXCEPT ![c] = exit]
  /\ pc' = [pc EXCEPT ![c] = "done"]
  /\ UNCHANGED <<clock, signInsSent, awaiting, src>>
  /\ UNCHANGED <<scopedVars, methodVars, invokeVars>>

NextCache ==
  \/ \E c \in Callers : Get(c)
  \/ \E c \in Callers, tag \in {"Success", "Fail", "Die"}, life \in 0..MaxLifetime :
        SignInReply(c, tag, life)
  \/ \E c \in Callers : Resume(c)
  \/ \E c \in Callers : Again(c)
  \/ Tick

\* The token cache with callers that can be interrupted while they sign in.
NextCancel ==
  \/ \E c \in Callers : Get(c)
  \/ \E c \in Callers, tag \in {"Success", "Fail", "Die"}, life \in 0..MaxLifetime :
        SignInReply(c, tag, life)
  \/ \E c \in Callers : Cancel(c)
  \/ \E c \in Callers : Resume(c)
  \/ \E c \in Callers : Again(c)
  \/ Tick

\* ------------------------------------------------------------ makeMethod
\* What the environment decides for one method invocation: whether the body
\* encodes, how the token fetch exits, whether the transport delivers, and
\* the response (status, content-type header, body).
NoValue == [shape |-> "none", id |-> "none"]
Bodies ==
  {[shape |-> sh, id |-> "none"] :
      sh \in {"empty", "garbage", "errSyntax", "errGeneric", "errNoMessage", "other", "str"}}
  \cup {[shape |-> "tx", id |-> i] : i \in TxIds}
Statuses == {200, 204, 400}
ContentTypes == {"none", "text/plain", "application/json", "application/xml"}
EnvOf(enc, tok, net, status, ctype, body) ==
  [enc |-> enc, tok |-> tok, net |-> net, status |-> status, ctype |-> ctype, body |-> body]
Envs ==
  {EnvOf("fail", "Success", "ok", 200, "none", [shape |-> "empty", id |-> "none"])}
  \cup {EnvOf("ok", t, "ok", 200, "none", [shape |-> "empty", id |-> "none"]) : t \in {"Fail", "Die"}}
  \cup {EnvOf("ok", "Success", "RequestError", 200, "none", [shape |-> "empty", id |-> "none"])}
  \cup {EnvOf("ok", "Success", "ok", st, ct, b) : st \in Statuses, ct \in ContentTypes, b \in Bodies}

Outcome(tag, err, value, sent) == [tag |-> tag, err |-> err, value |-> value, sent |-> sent]

\* res.json: an empty body parses to null, text that is no JSON fails with a
\* ResponseError; res.text is the body as a string.
ResJson_strict(body) ==
  IF body.shape \in {"empty", "garbage"} THEN [shape |-> "ResponseError", id |-> "none"]
  ELSE body
ResJson(body) ==
  IF body.shape = "empty" THEN [shape |-> "null", id |-> "none"]
  ELSE IF body.shape = "garbage" THEN [shape |-> "ResponseError", id |-> "none"]
  ELSE body
ResText(body) == [shape |-> "text", id |-> "none"]

\* The fields of a JSON value that the ApiError schemas look at: its string
\* code (if any) and whether it has a string message.
CodeOf(v) ==
  CASE v.shape \in {"errSyntax", "errNoMessage"} -> "TQL0"
    [] v.shape = "errGeneric" -> "GEN1"
    [] OTHER -> "none"
HasMessage(v) == v.shape \in {"errSyntax", "errGeneric"}
SyntaxApiError(v) == CodeOf(v) = "TQL0" /\ HasMessage(v)
GenericApiError(v) == CodeOf(v) # "none" /\ HasMessage(v)

\* Schema.decodeUnknown(ApiError): the union tries SyntaxApiError first, then
\* GenericApiError, and answers with the first member that decodes.
DecodeApiError_genericFirst(v) ==
  IF GenericApiError(v) THEN "GenericApiError"
  ELSE IF SyntaxApiError(v) THEN "SyntaxApiError"
  ELSE "ParseError"
DecodeApiError(v) ==
  IF SyntaxApiError(v) THEN "SyntaxApiError"
  ELSE IF GenericApiError(v) THEN "GenericApiError"
  ELSE "ParseError"

\* Schema.decodeUnknown(schema)(value) succeeds.
Decodes(schema, v) ==
  CASE schema \in {"Void", "Any"} -> TRUE
    [] schema = "Tx" -> v.shape = "tx"
    [] schema = "String" -> v.shape \in {"text", "str"}
    [] schema = "ApiError" -> DecodeApiError(v) # "ParseError"
    [] OTHER -> FALSE

\* Schema.decodeUnknown(schema) on what res.json / res.text produced; a
\* ParseError is turned into a defect by catchTag("ParseError", Effect.die).
DecodeBody(schema, v) ==
  IF v.shape = "ResponseError" THEN Outcome("Fail", "ResponseError", NoValue, TRUE)
  ELSE IF Decodes(schema, v) THEN Outcome("Success", "none", v, TRUE)
  ELSE Outcome("Die", "ParseError", NoValue, TRUE)

\* The status test of makeMethod: the one status it takes as success.
classifiedSuccess(status) == status = 200

\* Variants of makeMethod: one that tries the expected schema before ApiError
\* whatever the status, one that reads a body of unknown content type as JSON.
makeMethod_schemaFirst(schema, hasBody, env) ==
  IF hasBody /\ env.enc = "fail" THEN Outcome("Fail", "HttpBodyError", NoValue, FALSE)
  ELSE IF env.tok # "Success" THEN Outcome(env.tok, "tokenCache.get", NoValue, FALSE)
  ELSE IF env.net # "ok" THEN Outcome("Fail", "RequestError", NoValue, TRUE)
  ELSE LET v == ResJson(env.body) IN
    IF v.shape = "ResponseError" THEN Outcome("Fail", "ResponseError", NoValue, TRUE)
    ELSE IF Decodes(schema, v) THEN Outcome("Success", "none", v, TRUE)
    ELSE IF Decodes("ApiError", v) THEN Outcome("Fail", DecodeApiError(v), v, TRUE)
    ELSE Outcome("Die", "ParseError", NoValue, TRUE)
makeMethod_unknownAsJson(schema, hasBody, env) ==
  IF hasBody /\ env.enc = "fail" THEN Outcome("Fail", "HttpBodyError", NoValue, FALSE)
  ELSE IF env.tok # "Success" THEN Outcome(env.tok, "tokenCache.get", NoValue, FALSE)
  ELSE IF env.net # "ok" THEN Outcome("Fail", "RequestError", NoValue, TRUE)
  ELSE IF ~classifiedSuccess(env.status) THEN
    LET v == ResJson(env.body) IN
      IF v.shape = "ResponseError" THEN Outcome("Fail", "ResponseError", NoValue, TRUE)
      ELSE IF Decodes("ApiError", v) THEN Outcome("Fail", DecodeApiError(v), v, TRUE)
      ELSE Outcome("Die", "ParseError", NoValue, TRUE)
  ELSE IF env.ctype = "text/plain" THEN DecodeBody(schema, ResText(env.body))
  ELSE DecodeBody(schema, ResJson(env.body))

\* makeMethod with an unrecognised content type treated like a decode failure.
makeMethod_unknownDies(schema, hasBody, env) ==
  IF hasBody /\ env.enc = "fail" THEN Outcome("Fail", "HttpBodyError", NoValue, FALSE)
  ELSE IF env.tok # "Success" THEN Outcome(env.tok, "tokenCache.get", NoValue, FALSE)
  ELSE IF env.net # "ok" THEN Outcome("Fail", "RequestError", NoValue, TRUE)
  ELSE IF ~classifiedSuccess(env.status) THEN
    LET v == ResJson(env.body) IN
      IF v.shape = "ResponseError" THEN Outcome("Fail", "ResponseError", NoValue, TRUE)
      ELSE IF Decodes("ApiError", v) THEN Outcome("Fail", DecodeApiError(v), v, TRUE)
      ELSE Outcome("Die", "ParseError", NoValue, TRUE)
  ELSE IF env.ctype = "none" THEN DecodeBody(schema, ResJson(env.body))
  ELSE IF env.ctype = "text/plain" THEN DecodeBody(schema, ResText(env.body))
  ELSE IF env.ctype = "application/json" THEN DecodeBody(schema, ResJson(env.body))
  ELSE Outcome("Die", "TypeDbError", NoValue, TRUE)

\* makeMethod (client.ts:177-236) for one invocation.
makeMethod(schema, hasBody, env) ==
  IF hasBody /\ env.enc = "fail" THEN Outcome("Fail", "HttpBodyError", NoValue, FALSE)
  ELSE IF env.tok # "Success" THEN Outcome(env.tok, "tokenCache.get", NoValue, FALSE)
  ELSE IF env.net # "ok" THEN Outcome("Fail", "RequestError", NoValue, TRUE)
  ELSE IF ~classifiedSuccess(env.status) THEN
    LET v == ResJson(env.body) IN
      IF v.shape = "ResponseError" THEN Outcome("Fail", "ResponseError", NoValue, TRUE)
      ELSE IF Decodes("ApiError", v) THEN Outcome("Fail", DecodeApiError(v), v, TRUE)
      ELSE Outcome("Die", "ParseError", NoValue, TRUE)
  ELSE IF env.ctype = "none" THEN DecodeBody(schema, ResJson(env.body))
  ELSE IF env.ctype = "text/plain" THEN DecodeBody(schema, ResText(env.body))
  ELSE IF env.ctype = "application/json" THEN DecodeBody(schema, ResJson(env.body))
  ELSE Outcome("Fail", "TypeDbError", NoValue, TRUE)

\* The exits of the methods built on makeMethod, over every environment.
openTransaction == {makeMethod("Tx", TRUE, env) : env \in Envs}        \* client.ts:250-265
createDatabase == {makeMethod("Void", FALSE, env) : env \in Envs}      \* client.ts:354-360
\* closeTransaction, commitTransaction, deleteDatabase: no body, Schema.Void
terminalCall == {makeMethod("Void", FALSE, env) : env \in Envs}
Outcomes == openTransaction \cup createDatabase \cup terminalCall

\* The API methods built by makeMethod: response schema and whether a request
\* body is passed (client.ts:238-391).
Method(name, schema, hasBody) == [name |-> name, schema |-> schema, hasBody |-> hasBody]
Methods ==
  {Method(n, "Any", TRUE) : n \in {"oneShotQuery", "query", "analyze"}}
  \cup {Method("openTransaction", "Tx", TRUE)}
  \cup {Method(n, "Void", FALSE) :
          n \in {"closeTransaction", "commitTransaction", "rollbackTransaction",
                 "createDatabase", "deleteDatabase"}}
  \cup {Method(n, "String", FALSE) : n \in {"getDatabaseSchema", "getDatabaseTypeSchema"}}

\* No method has been invoked.
InitMethod ==
  /\ mpc = "ready"
  /\ mmethod = Method("closeTransaction", "Void", FALSE)
  /\ menv = EnvOf("ok", "Success", "ok", 200, "none", [shape |-> "empty", id |-> "none"])
  /\ mout = Outcome("None", "none", NoValue, FALSE)

\* Any method is about to be invoked in any environment.
InitInvocation ==
  /\ mpc = "ready"
  /\ mmethod \in Methods
  /\ menv \in Envs
  /\ mout = Outcome("None", "none", NoValue, FALSE)

\* The invocation runs to its exit.
Invoke ==
  /\ mpc = "ready"
  /\ mpc' = "returned"
  /\ mout' = makeMethod(mmethod.schema, mmethod.hasBody, menv)
  /\ UNCHANGED <<mmethod, menv>>
  /\ UNCHANGED <<cacheVars, scopedVars, invokeVars>>

NextMethod == Invoke

\* ------------------------------------- the client variant of part_000
\* ApiError of the variant (part_000:22-25): a string code and a string message.
ApiErrorVariant(v) == CodeOf(v) # "none" /\ HasMessage(v)

\* Schema.decodeUnknown(schema)(value) succeeds, for the schemas the variant
\* passes to makeMethod: Schema.Null accepts null only.
DecodesVariant(schema, v) ==
  CASE schema = "Any" -> TRUE
    [] schema = "Null" -> v.shape = "null"
    [] schema = "Tx" -> v.shape = "tx"
    [] schema = "String" -> v.shape \in {"text", "str"}
    [] schema = "ApiError" -> ApiErrorVariant(v)
    [] OTHER -> FALSE

\* makeMethod of the variant (part_000:134-178) for one invocation: no test of
\* the status or of the content type; the body is read with getBody (res.json
\* unless res.text is passed) and decoded with the method's schema first, and
\* with ApiError only if that fails.
makeMethodVariant(schema, hasBody, asText, env) ==
  IF hasBody /\ env.enc = "fail" THEN Outcome("Fail", "HttpBodyError", NoValue, FALSE)
  ELSE IF env.tok # "Success" THEN Outcome(env.tok, "tokenCache.get", NoValue, FALSE)
  ELSE IF env.net # "ok" THEN Outcome("Fail", "RequestError", NoValue, TRUE)
  ELSE
    LET x == IF asText THEN ResText(env.body) ELSE ResJson(env.body) IN
      IF x.shape = "ResponseError" THEN Outcome("Fail", "ResponseError", NoValue, TRUE)
      ELSE IF DecodesVariant(schema, x) THEN Outcome("Success", "none", x, TRUE)
      ELSE IF DecodesVariant("ApiError", x) THEN Outcome("Fail", "TypeDbError", x, TRUE)
      ELSE Outcome("Die", "ParseError", NoValue, TRUE)

\* The methods of the variant (part_000:180-310) and the ones that read the
\* body as text (part_000:304-320).
MethodsVariant ==
  {Method(n, "Any", TRUE) : n \in {"oneShotQuery", "query", "analyze"}}
  \cup {Method("openTransaction", "Tx", TRUE)}
  \cup {Method(n, "Null", FALSE) :
          n \in {"closeTransaction", "commitTransaction", "rollbackTransaction",
                 "createDatabase", "deleteDatabase"}}
  \cup {Method(n, "String", FALSE) : n \in {"getDatabaseSchema", "getDatabaseTypeSchema"}}
getText(name) == name \in {"getDatabaseSchema", "getDatabaseTypeSchema"}

\* Any method of the variant is about to be invoked in any environment.
InitInvocationVariant ==
  /\ mpc = "ready"
  /\ mmethod \in MethodsVariant
  /\ menv \in Envs
  /\ mout = Outcome("None", "none", NoValue, FALSE)

InvokeVariant ==
  /\ mpc = "ready"
  /\ mpc' = "returned"
  /\ mout' = makeMethodVariant(mmethod.schema, mmethod.hasBody, getText(mmethod.name), menv)
  /\ UNCHANGED <<mmethod, menv>>
  /\ UNCHANGED <<cacheVars, scopedVars, invokeVars>>

NextMethodVariant == InvokeVariant

\* ------------------------------------------- invocations through the cache
\* The request an invocation sends: its endpoint, the bearer token put on it
\* and how many times the invocation has sent it.
NoReq == [path |-> "none", bearer |-> 0, n |-> 0]
Request(path, bearer, n) == [path |-> path, bearer |-> bearer, n |-> n]
\* The exit of an invocation as its caller sees it: success, typed failure or
\* defect, and which error.
Surfaced(out) == [tag |-> out.tag, err |-> out.err]
NoOutcome == Surfaced(Outcome("None", "none", NoValue, FALSE))

\* The fiber whose invocations are followed from start to exit, one after the
\* other (token fetches of concurrent fibers are the subject of SpecCache), and
\* the methods it invokes: one with a request body, one without.
Sessions == {1}
SessionMethods == {m \in Methods : m.name \in {"query", "closeTransaction"}}

\* HttpClientRequest.bearerToken(token.token): the token this request's own
\* tokenCache.get returned (client.ts:130-137).
bearerToken_none(exit, earliest) == 0
bearerToken_firstFetched(exit, earliest) == IF earliest = 0 THEN exit.id ELSE earliest
bearerToken(exit, earliest) == exit.id

\* The request of authenticate: posted with publicHttp, the client without
\* the token mapping, so it carries no bearer token (client.ts:87-99).
authenticate(id) == Request("/v1/signin", 0, id)

\* What makeMethod does with the exit of its request: it is the exit of the
\* invocation, whatever it is; nothing is sent again.
afterExit_retry(out) == IF out.tag = "Fail" THEN "encoded" ELSE "finished"
afterExit(out) == "finished"

\* How the server or the transport answers POST /v1/signin, and the exit of
\* authenticate for each answer (client.ts:93-105): the response is read with
\* res.json and decoded as TokenResponse whatever its status, and a ParseError
\* is turned into a defect by catchTag("ParseError", Effect.orDie).
\*   "token"        200 with {token}: decodes
\*   "rejected"     the credentials are refused: a JSON error body, no token
\*   "garbage"      a body that is no JSON: ResponseError
\*   "unreachable"  the transport fails: RequestError
SignInAnswers == {"token", "rejected", "garbage", "unreachable"}
authenticateExit(reply) ==
  CASE reply = "token" -> "Success"
    [] reply = "rejected" -> "Die"
    [] reply \in {"garbage", "unreachable"} -> "Fail"

InitInvoke ==
  /\ stage = [c \in Callers |-> "none"]
  /\ meth = [c \in Callers |-> Method("none", "Void", FALSE)]
  /\ req = [c \in Callers |-> NoReq]
  /\ iout = [c \in Callers |-> NoOutcome]
  /\ fetches = [c \in Callers |-> 0]
  /\ floor = [c \in Callers |-> 0]
  /\ first = 0
  /\ signin = NoReq
  /\ answer = "none"
  /\ gotAt = [c \in Callers |-> 0]
  /\ reqBody = [c \in Callers |-> "none"]

\* The body encoded only when the request is executed, after the token fetch.
encodeBody_late(hasBody, enc) == "ok"

\* makeMethod starts: the body, if there is one, is encoded (client.ts:188-193).
encodeBody(hasBody, enc) == IF hasBody THEN enc ELSE "ok"

Begin(c, m, enc) ==
  /\ stage[c] = "none"
  /\ meth' = [meth EXCEPT ![c] = m]
  /\ reqBody' = [reqBody EXCEPT ![c] = IF m.hasBody THEN enc ELSE "none"]
  /\ IF encodeBody(m.hasBody, enc) = "fail"
       THEN /\ stage' = [stage EXCEPT ![c] = "finished"]
            /\ iout' = [iout EXCEPT ![c] =
                  Surfaced(Outcome("Fail", "HttpBodyError", NoValue, FALSE))]
       ELSE /\ stage' = [stage EXCEPT ![c] = "encoded"]
            /\ UNCHANGED iout
  /\ UNCHANGED <<req, fetches, floor, first, signin, answer, gotAt>>
  /\ UNCHANGED <<cacheVars, scopedVars, methodVars>>

\* http.execute: the request goes through mapRequestEffect, which fetches the
\* token from the cache (client.ts:128-140, 194-198).
Execute(c) ==
  /\ stage[c] = "encoded"
  /\ tokenCacheGet(c)
  /\ fetches' = [fetches EXCEPT ![c] = @ + 1]
  /\ floor' = [floor EXCEPT ![c] = IF cache.tag = "Absent" THEN 0 ELSE cache.id]
  /\ signin' = IF signInsSent' # signInsSent THEN authenticate(signInsSent') ELSE signin
  /\ gotAt' = [gotAt EXCEPT ![c] = IF pc'[c] = "done" THEN clock ELSE @]
  /\ UNCHANGED <<stage, meth, req, iout, first, answer, reqBody>>
  /\ UNCHANGED <<scopedVars, methodVars>>

\* The sign-in request of the invocation's lookup is answered: authenticate
\* exits, the cache stores the exit and hands it to the invocation.
SignInAnswer(c, reply, life) ==
  /\ stage[c] = "encoded"
  /\ authenticateExits(c, authenticateExit(reply), life)
  /\ answer' = reply
  /\ gotAt' = [gotAt EXCEPT ![c] = clock]
  /\ UNCHANGED <<stage, meth, req, iout, fetches, floor, first, signin, reqBody>>
  /\ UNCHANGED <<scopedVars, methodVars>>

\* The request sent whatever the token fetch returned.
mapRequestEffect_always(exit) == TRUE

\* mapRequestEffect (client.ts:128-137): the request goes on to the transport
\* only when the effect that fetches the token succeeded.
mapRequestEffect(exit) == exit.tag = "Success"

\* The token fetch has exited. With a token the request is sent, carrying it
\* as bearer token; a failed fetch is the exit of the invocation and nothing
\* is sent.
Send(c) ==
  /\ stage[c] = "encoded"
  /\ pc[c] = "done"
  /\ IF mapRequestEffect(result[c])
       THEN /\ req' = [req EXCEPT ![c] =
                  Request(meth[c].name, bearerToken(result[c], first), @.n + 1)]
            /\ first' = IF first = 0 THEN bearerToken(result[c], first) ELSE first
            /\ stage' = [stage EXCEPT ![c] = "sent"]
            /\ UNCHANGED iout
       ELSE /\ stage' = [stage EXCEPT ![c] = "finished"]
            /\ iout' = [iout EXCEPT ![c] =
                  Surfaced(Outcome(result[c].tag, "tokenCache.get", NoValue, FALSE))]
            /\ UNCHANGED <<req, first>>
  /\ UNCHANGED <<meth, fetches, floor, signin, answer, gotAt, reqBody>>
  /\ UNCHANGED <<cacheVars, scopedVars, methodVars>>

\* The exits makeMethod can take once its request is on the wire.
SentEnvs == {e \in Envs : e.enc = "ok" /\ e.tok = "Success"}

\* The request is answered (or the transport fails) and makeMethod exits.
Respond(c, env) ==
  /\ stage[c] = "sent"
  /\ LET out == makeMethod(meth[c].schema, meth[c].hasBody, env) IN
     IF afterExit(out) = "finished"
       THEN /\ stage' = [stage EXCEPT ![c] = "finished"]
            /\ iout' = [iout EXCEPT ![c] = Surfaced(out)]
            /\ UNCHANGED <<pc, result, src, awaiting>>
       ELSE /\ stage' = [stage EXCEPT ![c] = "encoded"]
            /\ pc' = [pc EXCEPT ![c] = "idle"]
            /\ result' = [result EXCEPT ![c] = NoExit]
            /\ src' = [src EXCEPT ![c] = "none"]
            /\ awaiting' = [awaiting EXCEPT ![c] = 0]
            /\ UNCHANGED iout
  /\ UNCHANGED <<clock, cache, deferreds, signInsSent, inflight>>
  /\ UNCHANGED <<meth, req, fetches, floor, first, signin, answer, gotAt, reqBody>>
  /\ UNCHANGED <<scopedVars, methodVars>>

\* The public authenticate with its token stored like a lookup's.
authenticateStores_asLookup(entry, exit, now) ==
  Complete(creds(1), 0, exit, now, now + timeToLive(exit, now))

\* What the public authenticate (client.ts:395) does to the cache entry: the
\* member is the bare sign-in effect (client.ts:88-106), which does not refer
\* to tokenCache.
authenticateStores(entry, exit, now) == entry

\* client.authenticate is run: a sign-in request goes out on publicHttp, not
\* through tokenCache.get.
Authenticate(c) ==
  /\ stage[c] = "none"
  /\ stage' = [stage EXCEPT ![c] = "authenticating"]
  /\ meth' = [meth EXCEPT ![c] = Method("authenticate", "Token", TRUE)]
  /\ UNCHANGED <<req, iout, fetches, floor, first, signin, answer, gotAt, reqBody>>
  /\ UNCHANGED <<cacheVars, scopedVars, methodVars>>

\* The sign-in request of client.authenticate is answered and the effect
\* exits to its caller.
AuthenticateExit(c, reply, life) ==
  /\ stage[c] = "authenticating"
  /\ LET tag == authenticateExit(reply)
         exit == ExitOf(tag, 0, clock + life)
     IN /\ cache' = authenticateStores(cache, exit, clock)
        /\ iout' = [iout EXCEPT ![c] =
              [tag |-> tag, err |-> IF tag = "Success" THEN "none" ELSE "authenticate"]]
  /\ stage' = [stage EXCEPT ![c] = "finished"]
  /\ UNCHANGED <<clock, deferreds, signInsSent, inflight, pc, awaiting, result, src>>
  /\ UNCHANGED <<meth, req, fetches, floor, first, signin, answer, gotAt, reqBody>>
  /\ UNCHANGED <<scopedVars, methodVars>>

\* The invocation is over; the same fiber invokes another method.
Finish(c) ==
  /\ stage[c] = "finished"
  /\ stage' = [stage EXCEPT ![c] = "none"]
  /\ meth' = [meth EXCEPT ![c] = Method("none", "Void", FALSE)]
  /\ req' = [req EXCEPT ![c] = NoReq]
  /\ iout' = [iout EXCEPT ![c] = NoOutcome]
  /\ fetches' = [fetches EXCEPT ![c] = 0]
  /\ floor' = [floor EXCEPT ![c] = 0]
  /\ pc' = [pc EXCEPT ![c] = "idle"]
  /\ result' = [result EXCEPT ![c] = NoExit]
  /\ src' = [src EXCEPT ![c] = "none"]
  /\ awaiting' = [awaiting EXCEPT ![c] = 0]
  /\ gotAt' = [gotAt EXCEPT ![c] = 0]
  /\ reqBody' = [reqBody EXCEPT ![c] = "none"]
  /\ UNCHANGED <<clock, cache, deferreds, signInsSent, inflight, first, signin, answer>>
  /\ UNCHANGED <<scopedVars, methodVars>>

NextInvoke ==
  \/ \E c \in Sessions, m \in SessionMethods, enc \in {"ok", "fail"} : Begin(c, m, enc)
  \/ \E c \in Sessions : Execute(c)
  \/ \E c \in Sessions, reply \in SignInAnswers, life \in 0..MaxLifetime :
        SignInAnswer(c, reply, life)
  \/ \E c \in Sessions : Send(c)
  \/ \E c \in Sessions, env \in SentEnvs : Respond(c, env)
  \/ \E c \in Sessions : Authenticate(c)
  \/ \E c \in Sessions, reply \in SignInAnswers, life \in 0..MaxLifetime :
        AuthenticateExit(c, reply, life)
  \/ \E c \in Sessions : Finish(c)
  \/ Tick

\* Effect.orDie: a typed failure becomes a defect.
orDie_identity(out) == out
orDie(out) == IF out.tag = "Fail" THEN [out EXCEPT !.tag = "Die"] ELSE out

\* -------------------------------------------------------- scoped resources
\* The release action of openTransactionScoped (client.ts:292-304) and of
\* createDatabaseScoped (client.ts:375): the method it calls.
release_alwaysCommit(kind, t, exit) ==
  IF kind = "db" THEN "deleteDatabase"
  ELSE IF exit # "Success" THEN "closeTransaction"
  ELSE "commitTransaction"
release_alwaysClose(kind, t, exit) ==
  IF kind = "db" THEN "deleteDatabase" ELSE "closeTransaction"
release_ignoresExit(kind, t, exit) ==
  IF kind = "db" THEN "deleteDatabase"
  ELSE IF t = "read" THEN "closeTransaction"
  ELSE "commitTransaction"
release(kind, t, exit) ==
  IF kind = "db" THEN "deleteDatabase"
  ELSE IF exit # "Success" THEN "closeTransaction"
  ELSE CASE t = "read" -> "closeTransaction"
         [] t = "write" -> "commitTransaction"
         [] t = "schema" -> "commitTransaction"

\* The path parameter of the terminal call: tx.transactionId, or dbName.
releaseArg_fixedName(kind, h, n) == IF kind = "db" THEN "temp_a" ELSE h
releaseArg(kind, h, n) == IF kind = "db" THEN n ELSE h

\* The Exit of Effect.scoped(use): the exit of the work, with the failure of
\* the finalizer added to its cause (a finalizer's failure is never dropped).
Cause(from, kind) == [from |-> from, kind |-> kind]
scopedExit(work, rel) ==
  LET causes == (IF work = "Success" THEN {} ELSE {Cause("work", work)})
                \cup (IF rel = "Success" THEN {} ELSE {Cause("release", rel)})
  IN [tag |-> IF causes = {} THEN "Success" ELSE "Failure", causes |-> causes]
NoFinal == [tag |-> "None", causes |-> {}]

Call(op, arg) == [op |-> op, arg |-> arg]

InitScoped ==
  /\ spc = [u \in Uses |-> "init"]
  /\ rkind = [u \in Uses |-> "none"]
  /\ txType = [u \in Uses |-> "none"]
  /\ dbName = [u \in Uses |-> "none"]
  /\ handle = [u \in Uses |-> "none"]
  /\ workExit = [u \in Uses |-> "None"]
  /\ calls = [u \in Uses |-> <<>>]
  /\ termOut = [u \in Uses |-> "None"]
  /\ termReq = [u \in Uses |-> "none"]
  /\ final = [u \in Uses |-> NoFinal]
  /\ cancelAt = [u \in Uses |-> "none"]

\* openTransactionScoped(dbName, txType) / createDatabaseScoped(dbName) is
\* run: the acquire effect issues its call.
Start(u, kind, t, n) ==
  /\ spc[u] = "init"
  /\ n \in (IF kind = "tx" THEN TxDbNames ELSE DbNames)
  /\ spc' = [spc EXCEPT ![u] = "acquiring"]
  /\ rkind' = [rkind EXCEPT ![u] = kind]
  /\ txType' = [txType EXCEPT ![u] = IF kind = "tx" THEN t ELSE "none"]
  /\ dbName' = [dbName EXCEPT ![u] = n]
  /\ calls' = [calls EXCEPT ![u] =
        <<Call(IF kind = "tx" THEN "openTransaction" ELSE "createDatabase", n)>>]
  /\ UNCHANGED <<handle, workExit, termOut, termReq, final, cancelAt>>
  /\ UNCHANGED <<cacheVars, methodVars, invokeVars>>

\* Where a scoped use goes when its acquire exits. Effect.acquireRelease runs
\* the acquire uninterruptibly and registers the release action before an
\* interruption can take effect: an acquire that succeeded on an interrupted
\* fiber goes straight to the exit of the scope.
acquireNext_alwaysRelease(cancelled, tag) ==
  IF tag # "Success" \/ cancelled THEN "exited" ELSE "working"
acquireNext_interruptible(cancelled, tag) ==
  IF tag # "Success" \/ cancelled THEN "done" ELSE "working"
acquireNext(cancelled, tag) ==
  IF tag # "Success" THEN "done" ELSE IF cancelled THEN "exited" ELSE "working"

\* The fiber of the scoped use is interrupted while its acquire call is in
\* flight: the region is uninterruptible, the interruption is recorded and
\* takes effect when the acquire has exited. (An interruption of the enclosed
\* work is WorkEnds with the Interrupt exit; one that arrives while the scope
\* closes changes nothing, the release action runs uninterruptibly.)
Interrupt(u) ==
  /\ spc[u] = "acquiring"
  /\ cancelAt[u] = "none"
  /\ cancelAt' = [cancelAt EXCEPT ![u] = spc[u]]
  /\ UNCHANGED <<spc, rkind, txType, dbName, handle, workExit, calls, termOut, termReq, final>>
  /\ UNCHANGED <<cacheVars, methodVars, invokeVars>>

\* The acquire call exits. On success the release action is registered in the
\* scope and the enclosed work starts; on failure nothing is registered.
acquireExits(u, out) ==
  /\ spc[u] = "acquiring"
  /\ LET cancelled == cancelAt[u] # "none"
         next == acquireNext(cancelled, out.tag)
     IN
     /\ spc' = [spc EXCEPT ![u] = next]
     /\ handle' = [handle EXCEPT ![u] =
           IF out.tag # "Success" THEN @
           ELSE IF rkind[u] = "tx" THEN out.value.id ELSE dbName[u]]
     /\ workExit' = [workExit EXCEPT ![u] =
           IF out.tag = "Success" /\ cancelled THEN "Interrupt" ELSE @]
     /\ final' = [final EXCEPT ![u] =
           IF next # "done" THEN @
           ELSE [tag |-> "Failure",
                 causes |-> {IF out.tag = "Success" THEN Cause("work", "Interrupt")
                             ELSE Cause("acquire", out.tag)}]]
  /\ UNCHANGED <<rkind, txType, dbName, calls, termOut, termReq, cancelAt>>
  /\ UNCHANGED <<cacheVars, methodVars, invokeVars>>

AcquireReply(u, out) ==
  /\ out \in (IF rkind[u] = "tx" THEN openTransaction ELSE createDatabase)
  /\ acquireExits(u, out)

\* The enclosed work uses the resource (checker.ts:14-15, config.ts:94-99).
WorkCall(u) ==
  /\ spc[u] = "working"
  /\ Len(calls[u]) < 1 + MaxWorkCalls
  /\ calls' = [calls EXCEPT ![u] =
        Append(@, Call(IF rkind[u] = "tx" THEN "analyze" ELSE "openTransaction", handle[u]))]
  /\ UNCHANGED <<spc, rkind, txType, dbName, handle, workExit, termOut, termReq, final, cancelAt>>
  /\ UNCHANGED <<cacheVars, methodVars, invokeVars>>

\* The enclosed work exits: it succeeds, fails, dies or is interrupted.
WorkEnds(u, exit) ==
  /\ spc[u] = "working"
  /\ spc' = [spc EXCEPT ![u] = "exited"]
  /\ workExit' = [workExit EXCEPT ![u] = exit]
  /\ cancelAt' = [cancelAt EXCEPT ![u] = IF exit = "Interrupt" THEN "working" ELSE @]
  /\ UNCHANGED <<rkind, txType, dbName, handle, calls, termOut, termReq, final>>
  /\ UNCHANGED <<cacheVars, methodVars, invokeVars>>

\* A scope that is never closed.
scopeCloses_never(p) == FALSE

\* A scope that may close while the enclosed work is still running.
scopeCloses_early(p) == p \in {"working", "exited"}

\* The finalizers of a scope run when the scope closes, and Effect.scoped
\* closes it when the enclosed effect has exited.
scopeCloses(p) == p = "exited"

\* The scope closes with the exit of the work: the release action runs and
\* issues its terminal call.
releaseIssues(u, op) ==
  /\ spc' = [spc EXCEPT ![u] = "releasing"]
  /\ calls' = [calls EXCEPT ![u] =
        Append(@, Call(op, releaseArg(rkind[u], handle[u], dbName[u])))]
  /\ UNCHANGED <<rkind, txType, dbName, handle, workExit, termOut, termReq, final, cancelAt>>
  /\ UNCHANGED <<cacheVars, methodVars, invokeVars>>

Release(u) ==
  /\ scopeCloses(spc[u])
  /\ releaseIssues(u, release(rkind[u], txType[u], workExit[u]))

\* The terminal call exits; the release action pipes it through Effect.orDie.
releaseExits(u, raw) ==
  /\ spc[u] = "releasing"
  /\ LET out == orDie(raw)
     IN /\ termOut' = [termOut EXCEPT ![u] = raw.tag]
        /\ termReq' = [termReq EXCEPT ![u] = IF raw.sent THEN "sent" ELSE raw.err]
        /\ final' = [final EXCEPT ![u] = scopedExit(workExit[u], out.tag)]
  /\ spc' = [spc EXCEPT ![u] = "done"]
  /\ UNCHANGED <<rkind, txType, dbName, handle, workExit, calls, cancelAt>>
  /\ UNCHANGED <<cacheVars, methodVars, invokeVars>>

ReleaseReply(u, raw) ==
  /\ raw \in terminalCall
  /\ releaseExits(u, raw)

NextScoped ==
  \/ \E u \in Uses, kind \in {"tx", "db"}, t \in TxTypes, n \in DbNames \cup TxDbNames :
        Start(u, kind, t, n)
  \/ \E u \in Uses : Interrupt(u)
  \/ \E u \in Uses, out \in Outcomes : AcquireReply(u, out)
  \/ \E u \in Uses : WorkCall(u)
  \/ \E u \in Uses, exit \in {"Success", "Fail", "Die", "Interrupt"} : WorkEnds(u, exit)
  \/ \E u \in Uses : Release(u)
  \/ \E u \in Uses, raw \in Outcomes : ReleaseReply(u, raw)

\* ------------------------------- scoped resources of the part_000 variant
\* The exits of the variant's methods used by its scoped resources.
openTransactionVariant == {makeMethodVariant("Tx", TRUE, FALSE, env) : env \in Envs}
createDatabaseVariant == {makeMethodVariant("Null", FALSE, FALSE, env) : env \in Envs}
terminalCallVariant == {makeMethodVariant("Null", FALSE, FALSE, env) : env \in Envs}
OutcomesVariant == openTransactionVariant \cup createDatabaseVariant \cup terminalCallVariant

\* The release actions of the variant (part_000:233-245, 296-302): the
\* transaction is closed when the scope exits with a failure and committed
\* when it exits with success, whatever its type.
releaseVariant(kind, t, exit) ==
  IF kind = "db" THEN "deleteDatabase"
  ELSE IF exit # "Success" THEN "closeTransaction"
  ELSE "commitTransaction"

AcquireReplyVariant(u, out) ==
  /\ out \in (IF rkind[u] = "tx" THEN openTransactionVariant ELSE createDatabaseVariant)
  /\ acquireExits(u, out)

ReleaseVariant(u) ==
  /\ scopeCloses(spc[u])
  /\ releaseIssues(u, releaseVariant(rkind[u], txType[u], workExit[u]))

ReleaseReplyVariant(u, raw) ==
  /\ raw \in terminalCallVariant
  /\ releaseExits(u, raw)

NextScopedVariant ==
  \/ \E u \in Uses, kind \in {"tx", "db"}, t \in TxTypes, n \in DbNames \cup TxDbNames :
        Start(u, kind, t, n)
  \/ \E u \in Uses : Interrupt(u)
  \/ \E u \in Uses, out \in OutcomesVariant : AcquireReplyVariant(u, out)
  \/ \E u \in Uses : WorkCall(u)
  \/ \E u \in Uses, exit \in {"Success", "Fail", "Die", "Interrupt"} : WorkEnds(u, exit)
  \/ \E u \in Uses : ReleaseVariant(u)
  \/ \E u \in Uses, raw \in OutcomesVariant : ReleaseReplyVariant(u, raw)

\* ---------------------------------------------------------- specifications
Init == InitCache /\ InitScoped /\ InitMethod /\ InitInvoke

\* The token cache under concurrent callers and a moving clock.
SpecCache == Init /\ [][NextCache]_vars

\* Scoped transactions and databases.
SpecCancel == Init /\ [][NextCancel]_vars
\* ----------------------------------------- transactions ended by hand
\* CoreService's schema loading (config.ts:91-115) and the migrator
\* (part_001:43-71) open a schema transaction with openTransaction, run their
\* queries in it and end it themselves with commitTransaction. Each is a
\* sequence of calls in one generator: a call that does not succeed ends the
\* generator there.
Programs == {"CoreService", "migrator"}
queries(prog) == IF prog = "migrator" THEN 2 ELSE 1     \* part_001:12-23, config.ts:95-98
databaseOf(prog) == IF prog = "migrator" THEN {"test-db"} ELSE DbNames
query == {makeMethod("Any", TRUE, env) : env \in Envs}  \* client.ts:283-289
QueriesRun(u) == Cardinality({i \in 1..Len(calls[u]) : calls[u][i].op = "query"})

\* What the generator does when a call in the transaction has exited: it goes
\* on after a success, and a failure is the exit of the generator.
afterCall(tag) == IF tag = "Success" THEN "next" ELSE "done"

OpenByHand(u, prog, n) ==
  /\ spc[u] = "init"
  /\ n \in databaseOf(prog)
  /\ spc' = [spc EXCEPT ![u] = "opening"]
  /\ rkind' = [rkind EXCEPT ![u] = prog]
  /\ txType' = [txType EXCEPT ![u] = "schema"]
  /\ dbName' = [dbName EXCEPT ![u] = n]
  /\ calls' = [calls EXCEPT ![u] = <<Call("openTransaction", n)>>]
  /\ UNCHANGED <<handle, workExit, termOut, termReq, final, cancelAt>>
  /\ UNCHANGED <<cacheVars, methodVars, invokeVars>>

OpenedByHand(u, out) ==
  /\ spc[u] = "opening"
  /\ out \in openTransaction
  /\ IF afterCall(out.tag) = "next"
       THEN /\ spc' = [spc EXCEPT ![u] = "open"]
            /\ handle' = [handle EXCEPT ![u] = out.value.id]
            /\ UNCHANGED final
       ELSE /\ spc' = [spc EXCEPT ![u] = "done"]
            /\ final' = [final EXCEPT ![u] =
                  [tag |-> "Failure", causes |-> {Cause("openTransaction", out.err)}]]
            /\ UNCHANGED handle
  /\ UNCHANGED <<rkind, txType, dbName, workExit, calls, termOut, termReq, cancelAt>>
  /\ UNCHANGED <<cacheVars, methodVars, invokeVars>>

\* The next query of the program is run in the transaction.
QueryByHand(u) ==
  /\ spc[u] = "open"
  /\ QueriesRun(u) < queries(rkind[u])
  /\ spc' = [spc EXCEPT ![u] = "querying"]
  /\ calls' = [calls EXCEPT ![u] = Append(@, Call("query", handle[u]))]
  /\ UNCHANGED <<rkind, txType, dbName, handle, workExit, termOut, termReq, final, cancelAt>>
  /\ UNCHANGED <<cacheVars, methodVars, invokeVars>>

QueryReply(u, out) ==
  /\ spc[u] = "querying"
  /\ out \in query
  /\ IF afterCall(out.tag) = "next"
       THEN /\ spc' = [spc EXCEPT ![u] = "open"]
            /\ UNCHANGED <<final, workExit>>
       ELSE /\ spc' = [spc EXCEPT ![u] = "done"]
            /\ workExit' = [workExit EXCEPT ![u] = out.tag]
            /\ final' = [final EXCEPT ![u] =
                  [tag |-> "Failure", causes |-> {Cause("query", out.err)}]]
  /\ UNCHANGED <<rkind, txType, dbName, handle, calls, termOut, termReq, cancelAt>>
  /\ UNCHANGED <<cacheVars, methodVars, invokeVars>>

\* Every query has succeeded: the program commits (config.ts:99, part_001:62).
CommitByHand(u) ==
  /\ spc[u] = "open"
  /\ QueriesRun(u) = queries(rkind[u])
  /\ spc' = [spc EXCEPT ![u] = "committing"]
  /\ workExit' = [workExit EXCEPT ![u] = "Success"]
  /\ calls' = [calls EXCEPT ![u] = Append(@, Call("commitTransaction", handle[u]))]
  /\ UNCHANGED <<rkind, txType, dbName, handle, termOut, termReq, final, cancelAt>>
  /\ UNCHANGED <<cacheVars, methodVars, invokeVars>>

CommitReply(u, out) ==
  /\ spc[u] = "committing"
  /\ out \in terminalCall
  /\ spc' = [spc EXCEPT ![u] = "done"]
  /\ termOut' = [termOut EXCEPT ![u] = out.tag]
  /\ termReq' = [termReq EXCEPT ![u] = IF out.sent THEN "sent" ELSE out.err]
  /\ final' = [final EXCEPT ![u] =
        IF out.tag = "Success" THEN [tag |-> "Success", causes |-> {}]
        ELSE [tag |-> "Failure", causes |-> {Cause("commitTransaction", out.err)}]]
  /\ UNCHANGED <<rkind, txType, dbName, handle, workExit, calls, cancelAt>>
  /\ UNCHANGED <<cacheVars, methodVars, invokeVars>>

NextByHand ==
  \/ \E u \in Uses, prog \in Programs, n \in DbNames \cup {"test-db"} : OpenByHand(u, prog, n)
  \/ \E u \in Uses, out \in Outcomes : OpenedByHand(u, out)
  \/ \E u \in Uses : QueryByHand(u)
  \/ \E u \in Uses, out \in query : QueryReply(u, out)
  \/ \E u \in Uses : CommitByHand(u)
  \/ \E u \in Uses, out \in Outcomes : CommitReply(u, out)

SpecByHand == Init /\ [][NextByHand]_vars
SpecScoped == Init /\ [][NextScoped]_vars
SpecScopedVariant == Init /\ [][NextScopedVariant]_vars

\* The scoped uses under the runtime's scheduling: a finalizer that is due is
\* run (the scope closes uninterruptibly), and a call that was issued exits,
\* with a response, a transport error or the failure of its token fetch.
SpecScopedLive ==
  /\ SpecScoped
  /\ \A u \in Uses : WF_vars(Release(u))
  /\ \A u \in Uses : WF_vars(\E raw \in Outcomes : ReleaseReply(u, raw))
InitAnyInvocation == InitCache /\ InitScoped /\ InitInvocation /\ InitInvoke
SpecMethod == InitAnyInvocation /\ [][NextMethod]_vars
InitAnyInvocationVariant == InitCache /\ InitScoped /\ InitInvocationVariant /\ InitInvoke
SpecMethodVariant == InitAnyInvocationVariant /\ [][NextMethodVariant]_vars
SpecInvoke == Init /\ [][NextInvoke]_vars

\* ------------------------------------------------------ token cache: claims
GetStep(c) == pc[c] = "idle" /\ pc'[c] # "idle"
HitStep(c) == pc[c] = "idle" /\ pc'[c] = "done"
ReplyStep(c) == pc[c] = "lookup" /\ pc'[c] = "done"
Waiting(c) == pc[c] \in {"lookup", "await"}
Max(a, b) == IF a >= b THEN a ELSE b
\* The entry holds a token / the last instant of the time to live of the
\* token it holds: TTL = exp - now - Skew (never negative), counted from the
\* moment `loaded` at which the token was stored.
HoldsToken == cache.tag = "Complete" /\ cache.exit.tag = "Success"
TtlEnd == cache.loaded + Max(0, cache.exit.exp - cache.loaded - Skew)

\* C1: callers that ask for a token while no live entry exists share one
\* sign-in request: at most one sign-in is in flight, every caller that waits
\* is attached to the one in flight (or to its finished Deferred), and every
\* caller answered by a lookup holds the exit of exactly that sign-in, which
\* one caller alone has sent.
C1_SingleFlight ==
  /\ Cardinality(inflight) <= 1
  /\ \A c \in Callers : Waiting(c) =>
        \/ awaiting[c] \in inflight /\ cache = Pending(creds(c), awaiting[c])
        \/ pc[c] = "await" /\ deferreds[awaiting[c]] # NoExit
  /\ \A c, d \in Callers :
        (Waiting(c) /\ Waiting(d) /\ awaiting[c] \in inflight /\ awaiting[d] \in inflight)
           => awaiting[c] = awaiting[d]
  /\ \A c \in Callers : (pc[c] = "done" /\ src[c] \in {"lookup", "shared"}) =>
        /\ result[c] = deferreds[awaiting[c]]
        /\ result[c].id = awaiting[c]
  /\ \A c, d \in Callers :
        (c # d /\ src[c] = "lookup" /\ src[d] = "lookup") => awaiting[c] # awaiting[d]

C1_Witness ==
  \E c, d \in Callers :
     /\ c # d
     /\ pc[c] = "done" /\ src[c] = "lookup"
     /\ pc[d] = "done" /\ src[d] = "shared"
     /\ signInsSent = 1
     /\ result[c] = result[d]
     /\ result[c].tag = "Success"

\* C2: while a token is cached and its time to live has not elapsed (counted
\* from the moment the token was stored), no sign-in request is sent, and
\* every token request is answered at once with the cached token.
C2_WithinTtlNoSignIn ==
  [][ (HoldsToken /\ clock <= TtlEnd) =>
        /\ signInsSent' = signInsSent
        /\ inflight' = inflight
        /\ \A c \in Callers : GetStep(c) =>
              /\ pc'[c] = "done"
              /\ result'[c] = cache.exit ]_vars

C2_Witness ==
  \E c, d \in Callers :
     /\ c # d
     /\ pc[c] = "done" /\ src[c] = "hit" /\ result[c].tag = "Success"
     /\ pc[d] = "done" /\ src[d] = "hit" /\ result[d] = result[c]
     /\ signInsSent = 1
     /\ clock > 0

\* C3: a token request that finds the stored entry expired sends exactly one
\* new sign-in request; while that sign-in is pending no other one is sent;
\* and when it is answered its exit replaces the entry.
C3_RefreshAfterExpiry ==
  /\ [][ \A c \in Callers :
           (GetStep(c) /\ HoldsToken /\ clock > TtlEnd) =>
              /\ signInsSent' = signInsSent + 1
              /\ inflight' = {signInsSent'}
              /\ cache' = Pending(cache.key, signInsSent')
              /\ pc'[c] = "lookup" ]_vars
  /\ [][ cache.tag = "Pending" => signInsSent' = signInsSent ]_vars
  /\ [][ \A c \in Callers : ReplyStep(c) =>
              /\ cache'.tag = "Complete"
              /\ cache'.id = awaiting[c]
              /\ cache'.exit = result'[c]
              /\ cache'.loaded = clock ]_vars

C3_Witness ==
  /\ signInsSent = 2
  /\ deferreds[1].tag = "Success"
  /\ cache.tag = "Complete"
  /\ cache.id = 2
  /\ cache.exit.tag = "Success"

\* C4: a failed authentication is never replayed from the cache: a caller
\* answered from a stored entry always holds a token.
C4_FailureNeverReplayed ==
  \A c \in Callers : (pc[c] = "done" /\ src[c] = "hit") => result[c].tag = "Success"

\* C5 as stated: a token is stored with time to live exp - now - Skew, and no
\* request is answered from the stored entry at a time >= exp - Skew.
C5_Original ==
  [][ /\ \A c \in Callers : (ReplyStep(c) /\ result'[c].tag = "Success") =>
            cache'.expiresAt - clock = result'[c].exp - clock - Skew
      /\ \A c \in Callers : (HitStep(c) /\ cache.exit.tag = "Success") =>
            clock < cache.exit.exp - Skew ]_vars

\* C5 as amended: a token is stored with time to live max(0, exp - now - Skew),
\* and no request is answered from the stored entry at a time later than
\* the moment it was stored plus that time to live.
C5_TtlAndLastAnswer ==
  [][ /\ \A c \in Callers : (ReplyStep(c) /\ result'[c].tag = "Success") =>
            cache'.expiresAt - clock = Max(0, result'[c].exp - clock - Skew)
      /\ \A c \in Callers : (HitStep(c) /\ cache.exit.tag = "Success") =>
            clock <= TtlEnd ]_vars

\* A token stored with a positive time to live has answered a later request.
C5_Witness ==
  \E c \in Callers :
     /\ pc[c] = "done" /\ src[c] = "hit" /\ result[c].tag = "Success"
     /\ cache.tag = "Complete" /\ cache.exit = result[c]
     /\ cache.expiresAt > cache.loaded
     /\ clock = cache.expiresAt

\* ------------------------------------------------- scoped resources: claims
\* How many times the scoped use u issued op with path parameter arg / at all.
Count(u, op, arg) == Cardinality({i \in 1..Len(calls[u]) : calls[u][i] = Call(op, arg)})
CountOp(u, op) == Cardinality({i \in 1..Len(calls[u]) : calls[u][i].op = op})
Ended(u) == spc[u] \in {"releasing", "done"}

\* C6: a scoped read transaction whose work succeeded issues exactly one
\* closeTransaction, for the id openTransaction returned, and no commit or
\* rollback.
C6_ReadSuccessCloses ==
  \A u \in Uses :
    (Ended(u) /\ rkind[u] = "tx" /\ txType[u] = "read" /\ workExit[u] = "Success") =>
       /\ Count(u, "closeTransaction", handle[u]) = 1
       /\ CountOp(u, "closeTransaction") = 1
       /\ CountOp(u, "commitTransaction") = 0
       /\ CountOp(u, "rollbackTransaction") = 0

C6_Witness ==
  \E u \in Uses :
    /\ spc[u] = "done" /\ rkind[u] = "tx" /\ txType[u] = "read"
    /\ workExit[u] = "Success" /\ final[u].tag = "Success"
    /\ CountOp(u, "analyze") = 1
    /\ handle[u] = "tx2"

\* C7: a scoped write or schema transaction whose work succeeded issues
\* exactly one commitTransaction, for the id openTransaction returned, and no
\* close or rollback.
C7_WriteSchemaSuccessCommits ==
  \A u \in Uses :
    (Ended(u) /\ rkind[u] = "tx" /\ txType[u] \in {"write", "schema"}
       /\ workExit[u] = "Success") =>
       /\ Count(u, "commitTransaction", handle[u]) = 1
       /\ CountOp(u, "commitTransaction") = 1
       /\ CountOp(u, "closeTransaction") = 0
       /\ CountOp(u, "rollbackTransaction") = 0

C7_Witness ==
  \E u \in Uses :
    /\ spc[u] = "done" /\ rkind[u] = "tx" /\ txType[u] = "schema"
    /\ workExit[u] = "Success" /\ final[u].tag = "Success"
    /\ Count(u, "commitTransaction", handle[u]) = 1

\* C8: a scoped transaction of any kind whose work failed, died or was
\* interrupted issues exactly one closeTransaction, for the id
\* openTransaction returned, and no commit or rollback.
C8_FailureCloses ==
  \A u \in Uses :
    (Ended(u) /\ rkind[u] = "tx" /\ workExit[u] \in {"Fail", "Die", "Interrupt"}) =>
       /\ Count(u, "closeTransaction", handle[u]) = 1
       /\ CountOp(u, "closeTransaction") = 1
       /\ CountOp(u, "commitTransaction") = 0
       /\ CountOp(u, "rollbackTransaction") = 0

C8_Witness ==
  \E u \in Uses :
    /\ spc[u] = "done" /\ rkind[u] = "tx" /\ txType[u] = "write"
    /\ workExit[u] = "Interrupt"
    /\ Count(u, "closeTransaction", handle[u]) = 1

\* C9: a scoped database whose createDatabase succeeded gets exactly one
\* deleteDatabase, for its own name, whatever the exit of the work; no
\* deleteDatabase is issued for another name, nor before the work has exited.
C9_DatabaseDeletedOnce ==
  \A u \in Uses :
    /\ (Ended(u) /\ rkind[u] = "db" /\ handle[u] # "none") =>
          /\ Count(u, "deleteDatabase", dbName[u]) = 1
          /\ CountOp(u, "deleteDatabase") = 1
    /\ (rkind[u] = "db" /\ ~Ended(u)) => CountOp(u, "deleteDatabase") = 0

C9_Witness ==
  \E u \in Uses :
    /\ spc[u] = "done" /\ rkind[u] = "db" /\ dbName[u] = "temp_b"
    /\ workExit[u] = "Fail"
    /\ calls[u][Len(calls[u])] = Call("deleteDatabase", "temp_b")

\* C10: when the terminal call of a release action fails (typed failure or
\* defect), the scoped use exits with a failure whose cause holds a defect of
\* the release, and no typed failure of the release.
C10_ReleaseFailureIsDefect ==
  \A u \in Uses :
    (spc[u] = "done" /\ termOut[u] \in {"Fail", "Die"}) =>
       /\ final[u].tag = "Failure"
       /\ Cause("release", "Die") \in final[u].causes
       /\ Cause("release", "Fail") \notin final[u].causes

C10_Witness ==
  \E u \in Uses :
    /\ spc[u] = "done" /\ termOut[u] = "Fail" /\ workExit[u] = "Success"
    /\ final[u] = [tag |-> "Failure", causes |-> {Cause("release", "Die")}]

\* C11: a resource whose acquire call succeeded has its release action run
\* exactly once, also when the fiber was interrupted while the open or create
\* request was in flight: the scoped use never ends without the one terminal
\* call on what acquire returned (the transaction id, the database name), and
\* never issues a second one.
TerminalCalls(u) ==
  {i \in 1..Len(calls[u]) :
      calls[u][i].op \in {"closeTransaction", "commitTransaction", "deleteDatabase"}}
C11_ReleaseOnCancellation ==
  \A u \in Uses :
    /\ Cardinality(TerminalCalls(u)) <= 1
    /\ (handle[u] # "none") => spc[u] \in {"working", "exited", "releasing", "done"}
    /\ (handle[u] # "none" /\ spc[u] \in {"releasing", "done"}) =>
          /\ Cardinality(TerminalCalls(u)) = 1
          /\ \A i \in TerminalCalls(u) : calls[u][i].arg = handle[u]
    /\ (handle[u] # "none" /\ spc[u] = "done") => termOut[u] # "None"
    /\ (cancelAt[u] = "acquiring" /\ handle[u] # "none" /\ Ended(u)) =>
          calls[u][Len(calls[u])].op = release(rkind[u], txType[u], "Interrupt")

C11_Witness ==
  \E u \in Uses :
    /\ spc[u] = "done" /\ cancelAt[u] = "acquiring" /\ rkind[u] = "tx"
    /\ handle[u] = "tx1" /\ txType[u] = "write"
    /\ calls[u] = <<Call("openTransaction", "family"), Call("closeTransaction", "tx1")>>

\* ------------------------------------------------- claims on makeMethod
\* The invocation has returned and a response reached the client: the body
\* encoded, the token fetch succeeded and the transport delivered.
Responded ==
  /\ mpc = "returned"
  /\ ~(mmethod.hasBody /\ menv.enc = "fail")
  /\ menv.tok = "Success"
  /\ menv.net = "ok"
ErrorShapes == {"errSyntax", "errGeneric"}

C13_UndecodableErrorBodyIsDefect ==
  (Responded /\ ~classifiedSuccess(menv.status) /\ menv.body.shape \notin ErrorShapes) =>
      mout.tag = "Die"

\* C14: ApiError decoding discriminates on the code alone: an error body with
\* code "TQL0" decodes to SyntaxApiError, never GenericApiError; an error body
\* with any other string code decodes to GenericApiError, never SyntaxApiError.
C14_CodeDiscriminates ==
  (Responded /\ ~classifiedSuccess(menv.status) /\ HasMessage(menv.body)) =>
      /\ (CodeOf(menv.body) = "TQL0") => mout.err = "SyntaxApiError"
      /\ (CodeOf(menv.body) \notin {"TQL0", "none"}) => mout.err = "GenericApiError"

C14_Witness ==
  /\ Responded /\ menv.status = 400 /\ CodeOf(menv.body) = "TQL0" /\ HasMessage(menv.body)
  /\ mmethod.name = "analyze"
  /\ mout = Outcome("Fail", "SyntaxApiError", menv.body, TRUE)

KnownContentTypes == {"none", "text/plain", "application/json"}
BodyMatches(schema, ctype, body) ==
  IF ctype = "text/plain" THEN Decodes(schema, ResText(body))
  ELSE /\ body.shape # "garbage"
       /\ Decodes(schema, ResJson(body))
C17_ShapeMismatchIsDefect ==
  (Responded /\ classifiedSuccess(menv.status) /\ menv.ctype \in KnownContentTypes
     /\ ~BodyMatches(mmethod.schema, menv.ctype, menv.body)) =>
      mout = Outcome("Die", "ParseError", NoValue, TRUE)

\* ------------------------------------- claims on requests and their tokens
\* C18: every request of an API method carries as bearer token the token its
\* own fetch from the token cache returned, a token issued by a successful
\* sign-in; the sign-in request carries no bearer token and is sent while the
\* cache holds no token, as the lookup of the fetch that found none.
C18_BearerFromCache ==
  /\ \A c \in Sessions :
       (req[c] # NoReq) =>
          /\ result[c].tag = "Success"
          /\ req[c].bearer = result[c].id
          /\ req[c].bearer \in 1..signInsSent
          /\ deferreds[req[c].bearer].tag = "Success"
  /\ (signin # NoReq) => (signin.bearer = 0 /\ signin.n = signInsSent)
  /\ \A id \in inflight : cache = Pending(creds(1), id) /\ signin = authenticate(id)

C18_Witness ==
  \E c \in Sessions :
    /\ stage[c] = "sent" /\ req[c] = Request("query", 2, 1)
    /\ src[c] = "hit" /\ signin = authenticate(2) /\ inflight = {}

\* C19: the token is fetched from the cache once for each request, when it is
\* sent: a request carries the token of the sign-in its own fetch was answered
\* with, never one older than the newest sign-in the cache knew when the fetch
\* began; after a refresh the requests carry the new token, not the earlier.
C19_TokenPerRequest ==
  \A c \in Sessions :
    (req[c] # NoReq) =>
       /\ fetches[c] = req[c].n
       /\ req[c].bearer = awaiting[c]
       /\ req[c].bearer >= floor[c]
       /\ req[c].bearer >= first

C19_Witness ==
  \E c \in Sessions :
    /\ first = 1 /\ floor[c] = 2 /\ src[c] = "hit"
    /\ stage[c] = "sent" /\ req[c].bearer = 2

\* C20: one invocation fetches the token at most once and sends at most one
\* request; a transport failure, an ApiError or a decode failure of that
\* request is the exit of the invocation, with no second request and no
\* second sign-in.
C20_AtMostOneRequest ==
  \A c \in Sessions :
    /\ fetches[c] <= 1
    /\ req[c].n <= 1
    /\ req[c].n <= fetches[c]
    /\ (stage[c] = "finished") => iout[c] # NoOutcome
    /\ (stage[c] = "finished" /\ req[c] # NoReq) => pc[c] = "done"

C20_Witness ==
  \E c \in Sessions :
    /\ stage[c] = "finished" /\ iout[c] = Surfaced(Outcome("Fail", "RequestError", NoValue, TRUE))
    /\ req[c].n = 1 /\ fetches[c] = 1 /\ src[c] = "lookup" /\ signInsSent = 1

\* ------------------------------------------ claims on sign-in and ordering
\* C21: when the remote refuses the credentials at sign-in, the token fetch
\* fails with a typed failure (an authentication error the caller can
\* handle), no token is handed out or stored, and the invocation that asked
\* for the token ends in that typed failure.
C21_RejectedIsTypedFailure ==
  \A c \in Sessions :
    (answer = "rejected" /\ src[c] = "lookup" /\ pc[c] = "done") =>
       /\ result[c].tag = "Fail"
       /\ cache.exit.tag # "Success"
       /\ req[c] = NoReq
       /\ (stage[c] = "finished") => iout[c] = [tag |-> "Fail", err |-> "tokenCache.get"]

\* C22: the two protocol violations of a success response end differently.
\* A body that was read but does not decode against the method's schema ends
\* the invocation in a defect (ParseError, converted by Effect.die); a content
\* type the client does not recognise ends it in the typed failure
\* TypeDbError, which the caller can handle.
ReadValue(ctype, body) == IF ctype = "text/plain" THEN ResText(body) ELSE ResJson(body)
DecodeFails(schema, ctype, body) ==
  /\ ctype \in KnownContentTypes
  /\ ReadValue(ctype, body).shape # "ResponseError"
  /\ ~Decodes(schema, ReadValue(ctype, body))
SuccessStatuses == 200..299
C23_Any2xxIsSuccess ==
  (Responded /\ menv.status \in SuccessStatuses) =>
      mout = makeMethod(mmethod.schema, mmethod.hasBody, [menv EXCEPT !.status = 200])

\* C24: the request body is encoded before the token is fetched. When the
\* encoding fails the invocation is over at once with the failure
\* HttpBodyError: it has fetched no token, so no sign-in was started for it,
\* and it has sent no request.
C24_EncodeFailureSendsNothing ==
  \A c \in Sessions :
    (reqBody[c] = "fail") =>
       /\ stage[c] = "finished"
       /\ iout[c] = Surfaced(Outcome("Fail", "HttpBodyError", NoValue, FALSE))
       /\ fetches[c] = 0
       /\ pc[c] = "idle"
       /\ req[c] = NoReq

C24_Witness ==
  \E c \in Sessions :
    /\ stage[c] = "finished" /\ reqBody[c] = "fail"
    /\ iout[c].tag = "Fail" /\ iout[c].err = "HttpBodyError"
    /\ signInsSent = 0 /\ signin = NoReq /\ req[c] = NoReq

\* C25: when the token fetch of an invocation does not succeed, the
\* invocation sends no request (so nothing but the sign-in went out without a
\* bearer token) and ends with the exit of the token fetch.
C25_NoTokenNoRequest ==
  \A c \in Sessions :
    /\ (pc[c] = "done" /\ result[c].tag # "Success") =>
         /\ req[c] = NoReq
         /\ stage[c] \in {"encoded", "finished"}
         /\ (stage[c] = "finished") =>
               iout[c] = [tag |-> result[c].tag, err |-> "tokenCache.get"]
    /\ (req[c] # NoReq) => (req[c].bearer # 0 /\ result[c].tag = "Success")

C25_Witness ==
  \E c \in Sessions :
    /\ stage[c] = "finished" /\ src[c] = "lookup" /\ answer = "unreachable"
    /\ result[c].tag = "Fail"
    /\ iout[c] = [tag |-> "Fail", err |-> "tokenCache.get"]
    /\ req[c] = NoReq /\ signin # NoReq

\* ------------------------------------- claims on the scope's terminal call
\* C26: when the acquire step of a scoped resource fails, no release action
\* is registered: the scoped operation is over with the acquire's failure and
\* issues no close, commit or delete, then or later.
AcquireFailed(u) == \E k \in {"Fail", "Die"} : Cause("acquire", k) \in final[u].causes
C26_FailedAcquireRegistersNothing ==
  \A u \in Uses :
    /\ (handle[u] = "none") => TerminalCalls(u) = {}
    /\ AcquireFailed(u) =>
         /\ spc[u] = "done"
         /\ handle[u] = "none"
         /\ Len(calls[u]) = 1
         /\ termOut[u] = "None"

C26_Witness ==
  \E u \in Uses :
    /\ spc[u] = "done" /\ rkind[u] = "tx" /\ AcquireFailed(u)
    /\ calls[u] = <<Call("openTransaction", dbName[u])>>

\* C27: the terminal call of a scoped use is issued only after the enclosed
\* work has exited, and it is the last call of the scoped operation: no
\* second terminal call and no other call follows it.
C27_TerminalCallIsLast ==
  \A u \in Uses :
    \A i \in TerminalCalls(u) :
      /\ i = Len(calls[u])
      /\ workExit[u] \in {"Success", "Fail", "Die", "Interrupt"}
      /\ spc[u] \in {"releasing", "done"}

C27_Witness ==
  \E u \in Uses :
    /\ spc[u] = "done" /\ rkind[u] = "tx" /\ workExit[u] = "Success"
    /\ Len(calls[u]) = 3
    /\ calls[u][2].op = "analyze"
    /\ TerminalCalls(u) = {3}

C29_TokenObtainedInsideTtl ==
  \A c \in Sessions :
    (req[c] # NoReq) =>
       /\ cache.tag = "Complete" /\ cache.exit = result[c]
       /\ req[c].bearer = result[c].id
       /\ cache.loaded <= gotAt[c]
       /\ (src[c] = "hit") => gotAt[c] <= Max(cache.loaded, result[c].exp - Skew)
       /\ (src[c] = "lookup") => gotAt[c] = cache.loaded

C29_Witness ==
  \E c \in Sessions :
    /\ req[c] # NoReq /\ src[c] = "hit"
    /\ gotAt[c] = result[c].exp - Skew
    /\ gotAt[c] > cache.loaded

\* C29 as first stated: every bearer token was obtained at a time earlier
\* than exp - Skew, by a hit or by the sign-in made for the request.
C29_ObtainedBeforeSkew ==
  \A c \in Sessions : (req[c] # NoReq) => gotAt[c] < result[c].exp - Skew

\* --------------------------------------------- claims on client.authenticate
\* C30: the public authenticate signs in without touching the token cache.
\* While it runs and when it exits, the cache entry, the lookups and the
\* sign-ins of the cache are as they were, so a token request made afterwards
\* is answered (hit, await or miss) as it would have been without the call.
C30_AuthenticateLeavesCache ==
  [][ \A c \in Sessions :
        (stage[c] = "authenticating" \/ stage'[c] = "authenticating") =>
           /\ UNCHANGED <<cache, deferreds, signInsSent, inflight>>
           /\ \A t \in 0..MaxTime :
                 resolve(entryFor(creds(c))', t) = resolve(entryFor(creds(c)), t) ]_vars

\* A client holding a cached token ran authenticate with success; the entry
\* is the one its earlier lookup stored.
C30_Witness ==
  \E c \in Sessions :
    /\ stage[c] = "finished" /\ meth[c].name = "authenticate"
    /\ iout[c].tag = "Success"
    /\ cache.tag = "Complete" /\ cache.id = 1 /\ cache.exit.tag = "Success"
    /\ signInsSent = 1 /\ clock > cache.loaded

\* ------------------------------------------- claims on a cancelled sign-in
\* C31: when the caller whose token request started the sign-in is cancelled
\* before the sign-in completes, at most one sign-in is in flight at any time
\* and the callers that joined that sign-in are not cancelled with it: each
\* of them completes with a token or with the failure of an authentication.
C31_WaitersSurviveCancel ==
  /\ Cardinality(inflight) <= 1
  /\ \A c \in Callers :
       (pc[c] = "done" /\ src[c] = "shared") => result[c].tag \in {"Success", "Fail", "Die"}

\* ---------------------------------- claims on transactions ended by hand
\* C32: in CoreService's schema loading and in the migrator every transaction
\* that was opened has received exactly one terminal call (close, commit or
\* rollback) when the operation is over, also when a query in it failed.
EndingCalls(u) ==
  {i \in 1..Len(calls[u]) :
      /\ calls[u][i].op \in {"closeTransaction", "commitTransaction", "rollbackTransaction"}
      /\ calls[u][i].arg = handle[u]}
C32_OpenedIsEndedOnce ==
  \A u \in Uses :
    (spc[u] = "done" /\ handle[u] # "none") => Cardinality(EndingCalls(u)) = 1

\* ------------------------------------------ claims on the variant client
\* C33: in the variant a scoped read transaction whose work succeeded is
\* closed, not committed: one closeTransaction for the id openTransaction
\* returned, and no commitTransaction.
C33_VariantReadCloses ==
  \A u \in Uses :
    (Ended(u) /\ rkind[u] = "tx" /\ txType[u] = "read" /\ workExit[u] = "Success") =>
       /\ Count(u, "closeTransaction", handle[u]) = 1
       /\ CountOp(u, "commitTransaction") = 0

\* C34: in the variant a reply whose body is an ApiError ({code, message})
\* makes the invocation fail with a TypeDbError wrapping that ApiError, for
\* every method, the ones with schema Any included; it is never the value of
\* a successful invocation.
C34_ApiErrorBodyFails ==
  (Responded /\ menv.body.shape \in ErrorShapes) =>
      mout = Outcome("Fail", "TypeDbError", menv.body, TRUE)

====
